---- MODULE Spec2Model ----
(***************************************************************************)
(* A model of the artman command line (src/artman/cli/main.py): main,      *)
(* normalize_flags, _run_artman_in_docker, _change_owner and               *)
(* _change_directory_owner.                                                *)
(*                                                                         *)
(* Python strings that the code slices, searches or joins are sequences of *)
(* one-character strings, so that `'token' in line`, line.index(':') and   *)
(* line[:index + 2] are computed on characters.  Dictionary keys, log      *)
(* message identifiers and pipeline names are TLA+ strings.                *)
(***************************************************************************)
EXTENDS Integers, Sequences, FiniteSets, TLC

\* The number of times the Config Merger is applied to the same inputs
\* under MergerSpec.
MaxRuns == 2

(***************************************************************************)
(* String literals, spelled out as characters.                             *)
(***************************************************************************)
S(s) ==
  CASE s = "" -> << >>
    [] s = "root_dir" -> <<"r", "o", "o", "t", "_", "d", "i", "r">>
    [] s = "toolkit_path" -> <<"t", "o", "o", "l", "k", "i", "t", "_", "p", "a", "t", "h">>
    [] s = "generator_args" -> <<"g", "e", "n", "e", "r", "a", "t", "o", "r", "_", "a", "r", "g", "s">>
    [] s = "artifact_type" -> <<"a", "r", "t", "i", "f", "a", "c", "t", "_", "t", "y", "p", "e">>
    [] s = "aspect" -> <<"a", "s", "p", "e", "c", "t">>
    [] s = "language" -> <<"l", "a", "n", "g", "u", "a", "g", "e">>
    [] s = "discovery_doc" -> <<"d", "i", "s", "c", "o", "v", "e", "r", "y", "_", "d", "o", "c">>
    [] s = "output_dir" -> <<"o", "u", "t", "p", "u", "t", "_", "d", "i", "r">>
    [] s = "gapic_yaml" -> <<"g", "a", "p", "i", "c", "_", "y", "a", "m", "l">>
    [] s = "local_repo_dir" -> <<"l", "o", "c", "a", "l", "_", "r", "e", "p", "o", "_", "d", "i", "r">>
    [] s = "github_token" -> <<"g", "i", "t", "h", "u", "b", "_", "t", "o", "k", "e", "n">>
    [] s = "src_proto_path" -> <<"s", "r", "c", "_", "p", "r", "o", "t", "o", "_", "p", "a", "t", "h">>
    [] s = "GAPIC_ONLY" -> <<"G", "A", "P", "I", "C", "_", "O", "N", "L", "Y">>
    [] s = "GAPIC" -> <<"G", "A", "P", "I", "C">>
    [] s = "DISCOGAPIC" -> <<"D", "I", "S", "C", "O", "G", "A", "P", "I", "C">>
    [] s = "GRPC" -> <<"G", "R", "P", "C">>
    [] s = "GAPIC_CONFIG" -> <<"G", "A", "P", "I", "C", "_", "C", "O", "N", "F", "I", "G">>
    [] s = "DISCOGAPIC_CONFIG" -> <<"D", "I", "S", "C", "O", "G", "A", "P", "I", "C", "_", "C", "O", "N", "F", "I", "G">>
    [] s = "PROTOBUF" -> <<"P", "R", "O", "T", "O", "B", "U", "F">>
    [] s = "ALL" -> <<"A", "L", "L">>
    [] s = "ruby" -> <<"r", "u", "b", "y">>
    [] s = "python" -> <<"p", "y", "t", "h", "o", "n">>
    [] s = "/w" -> <<"/", "w">>
    [] s = "in" -> <<"i", "n">>
    [] s = "a.yaml" -> <<"a", ".", "y", "a", "m", "l">>
    [] s = "/etc/a.yaml" -> <<"/", "e", "t", "c", "/", "a", ".", "y", "a", "m", "l">>
    [] s = "./artman-genfiles" -> <<".", "/", "a", "r", "t", "m", "a", "n", "-", "g", "e", "n", "f", "i", "l", "e", "s">>
    [] s = "/out" -> <<"/", "o", "u", "t">>
    [] s = "/toolkit" -> <<"/", "t", "o", "o", "l", "k", "i", "t">>
    [] s = "/repo" -> <<"/", "r", "e", "p", "o">>
    [] s = "/w/in/gapic.yaml" -> <<"/", "w", "/", "i", "n", "/", "g", "a", "p", "i", "c", ".", "y", "a", "m", "l">>
    [] s = "disco.json" -> <<"d", "i", "s", "c", "o", ".", "j", "s", "o", "n">>
    [] s = "s3cr3t" -> <<"s", "3", "c", "r", "3", "t">>
    [] s = "google/tokens" -> <<"g", "o", "o", "g", "l", "e", "/", "t", "o", "k", "e", "n", "s">>
    [] s = "/tmp/tmp" -> <<"/", "t", "m", "p", "/", "t", "m", "p">>
    [] s = "token" -> <<"t", "o", "k", "e", "n">>
    [] s = "<< REDACTED >>" -> <<"<", "<", " ", "R", "E", "D", "A", "C", "T", "E", "D", " ", ">", ">">>
    [] s = "null" -> <<"n", "u", "l", "l">>
    [] s = "''" -> <<"'", "'">>
    [] s = "  - " -> <<" ", " ", "-", " ">>
    [] s = ": " -> <<":", " ">>
    [] s = ":" -> <<":">>
    [] s = "/" -> <<"/">>
    [] s = "/d" -> <<"/", "d">>
    [] s = "/f" -> <<"/", "f">>

(***************************************************************************)
(* Python string operations used by the code.                              *)
(***************************************************************************)
\* needle in hay
Contains(hay, needle) ==
  \E i \in 1..(Len(hay) - Len(needle) + 1) :
    SubSeq(hay, i, i + Len(needle) - 1) = needle

\* hay.index(ch), 0-based; -1 stands for the ValueError Python raises.
Index(hay, ch) ==
  IF \E i \in 1..Len(hay) : hay[i] = ch
  THEN (CHOOSE i \in 1..Len(hay) :
          hay[i] = ch /\ \A j \in 1..(i - 1) : hay[j] # ch) - 1
  ELSE -1

\* s[:n] for n >= 0
Slice(s, n) == SubSeq(s, 1, IF n < Len(s) THEN n ELSE Len(s))

StartsWith(s, p) == Len(s) >= Len(p) /\ SubSeq(s, 1, Len(p)) = p

\* The process's working directory.
Cwd == S("/w")

isabs(p) == StartsWith(p, S("/"))

\* os.path.join(a, b)
join(a, b) ==
  IF isabs(b) THEN b
  ELSE IF a = << >> \/ a[Len(a)] = "/" THEN a \o b
  ELSE a \o S("/") \o b

\* os.path.normpath on the paths that occur: a leading "./" is dropped.
normpath(p) ==
  IF StartsWith(p, <<".", "/">>) THEN SubSeq(p, 3, Len(p)) ELSE p

\* os.path.abspath(p)
abspath(p) ==
  IF isabs(p) THEN p
  ELSE IF normpath(p) = << >> THEN Cwd
  ELSE join(Cwd, normpath(p))

(***************************************************************************)
(* Python values held in the pipeline arguments.                           *)
(***************************************************************************)
Str(c) == [kind |-> "str", s |-> c, items |-> << >>]
None == [kind |-> "none", s |-> << >>, items |-> << >>]
List(xs) == [kind |-> "list", s |-> << >>, items |-> xs]

\* bool(v) of a pipeline argument
Truthy(v) ==
  CASE v.kind = "str" -> v.s # << >>
    [] v.kind = "none" -> FALSE
    [] v.kind = "list" -> v.items # << >>

\* a.update(b): the entries of b win.
Update(a, b) ==
  [k \in (DOMAIN a) \cup (DOMAIN b) |-> IF k \in DOMAIN b THEN b[k] ELSE a[k]]

EmptyDict == [k \in {} |-> None]

(***************************************************************************)
(* Program constants.                                                      *)
(***************************************************************************)
DEFAULT_OUTPUT_DIR == S("./artman-genfiles")
REDACTED == S("<< REDACTED >>")
PIPELINE_FAILED_STATUS == 32
DOCKER_FAILED_STATUS == 32
CONFIG_ERROR_STATUS == 96
\* The status of a Python process that ends on an uncaught exception.
UNCAUGHT_STATUS == 1

(***************************************************************************)
(* The inputs of a run.                                                    *)
(***************************************************************************)
\* Artifact.Type values; "UNRECOGNIZED" is a value outside the seven the
\* dispatch of normalize_flags knows.
ArtifactTypes ==
  {"GAPIC_ONLY", "GAPIC", "DISCOGAPIC", "GRPC", "GAPIC_CONFIG",
   "DISCOGAPIC_CONFIG", "PROTOBUF", "UNRECOGNIZED"}

\* Artifact.Language values (protobuf enum members).
Languages == {"RUBY", "PYTHON"}

\* The flags parse_args yields: --local, --root-dir, --config, --output-dir.
RawFlagsSet ==
  [local : BOOLEAN,
   root_dir : {S(""), S("in")},
   config : {S("a.yaml"), S("/etc/a.yaml")},
   output_dir : {DEFAULT_OUTPUT_DIR, S("/out")}]

\* What is found at the resolved --config path: no file, a file from which
\* the named artifact cannot be loaded, or a loadable artifact.
ConfigFiles == {"missing", "invalid", "ok"}

\* The artifact config record load_artifact_config returns.
ArtifactConfigs ==
  [type : ArtifactTypes, language : Languages, discovery_doc : {S("disco.json")}]

\* The shapes of the legacy configuration the converter and
\* load_config_spec produce for the artifact, besides output_dir.
ConfigSpecs == {"bare", "plain", "token", "protos"}

VARIABLES
  rawFlags,        \* the flags as parsed, never changed
  flags,           \* the flags namespace, rewritten by normalize_flags
  configFile,      \* what the --config path holds
  artifact,        \* the artifact config in the config file
  configSpec,      \* the shape of the legacy configuration
  pc,              \* where main is: start, local, finally, docker, done
  pipeline_name,   \* what normalize_flags returned to main
  pipeline_args,
  results,         \* every (name, args) normalize_flags has returned
  tmpDirs,         \* directories tempfile.mkdtemp has created
  log,             \* logger calls, in order
  warned,          \* number of warnings.warn calls
  pending,         \* exit status a sys.exit has raised, not yet final
  exitStatus,      \* the process's exit status, -1 while it runs
  pipelineMade,    \* number of pipeline_factory.make_pipeline calls
  engineRan,       \* number of engine.run() calls
  containers,      \* number of docker child processes started
  childExit,       \* the docker child's exit code, -1 when none has ended
  changeOwnerCalls,\* number of _change_owner calls
  ownerRaised,     \* _change_owner ended on an exception
  hostEnv,         \* HOST_USER_ID and HOST_GROUP_ID as _change_owner read them
  chowns           \* the paths os.chown has changed, in order

vars ==
  <<rawFlags, flags, configFile, artifact, configSpec, pc, pipeline_name,
    pipeline_args, results, tmpDirs, log, warned, pending, exitStatus,
    pipelineMade, engineRan, containers, childExit, changeOwnerCalls,
    ownerRaised, hostEnv, chowns>>

inputs == <<rawFlags, configFile, artifact, configSpec>>

Init ==
  /\ rawFlags \in RawFlagsSet
  /\ flags = rawFlags
  /\ configFile \in ConfigFiles
  /\ artifact \in ArtifactConfigs
  /\ configSpec \in ConfigSpecs
  /\ pc = "start"
  /\ pipeline_name = ""
  /\ pipeline_args = EmptyDict
  /\ results = << >>
  /\ tmpDirs = {}
  /\ log = << >>
  /\ warned = 0
  /\ pending = -1
  /\ exitStatus = -1
  /\ pipelineMade = 0
  /\ engineRan = 0
  /\ containers = 0
  /\ childExit = -1
  /\ changeOwnerCalls = 0
  /\ ownerRaised = FALSE
  /\ hostEnv = << >>
  /\ chowns = << >>

(***************************************************************************)
(* normalize_flags                                                         *)
(***************************************************************************)
\* A variant of the path resolution that puts the working directory in
\* front of --root-dir without asking whether it is absolute already.
ResolveFlags_Prefixed(f) ==
  IF f.root_dir # << >>
  THEN [f EXCEPT !.root_dir = Cwd \o S("/") \o f.root_dir,
                 !.config = join(abspath(f.root_dir), f.config),
                 !.output_dir = abspath(f.output_dir)]
  ELSE [f EXCEPT !.root_dir = Cwd,
                 !.config = abspath(f.config),
                 !.output_dir = abspath(f.output_dir)]

\* The flags after the path resolution at the head of normalize_flags.
ResolveFlags(f) ==
  IF f.root_dir # << >>
  THEN [f EXCEPT !.root_dir = abspath(f.root_dir),
                 !.config = join(abspath(f.root_dir), f.config),
                 !.output_dir = abspath(f.output_dir)]
  ELSE [f EXCEPT !.root_dir = Cwd,
                 !.config = abspath(f.config),
                 !.output_dir = abspath(f.output_dir)]

\* pipeline_args as first filled in: the local paths.
BaseArgs(f) ==
  ("root_dir" :> Str(f.root_dir)) @@ ("toolkit_path" :> Str(S("/toolkit")))
    @@ ("generator_args" :> None)

\* Artifact.Language.Name(n).lower()
LanguageName(l) ==
  CASE l = "RUBY" -> S("ruby")
    [] l = "PYTHON" -> S("python")

\* Artifact.Type.Name(n)
TypeName(ty) == S(ty)

\* A Python str, and a member of the protobuf enum Artifact.Language, which
\* is an int.
PyStr(c) == [pytype |-> "str", chars |-> c]
PyEnum(m) == [pytype |-> "int", member |-> m]

\* a != b in Python: values of different types are unequal.
PyNotEqual(a, b) == IF a.pytype # b.pytype THEN TRUE ELSE a # b

\* `language != Artifact.RUBY`, which decides the deprecation warning.
Deprecated(language) == PyNotEqual(PyStr(language), PyEnum("RUBY"))

LogEntry(level, msg, text) == [level |-> level, msg |-> msg, text |-> text]

\* The artifact types whose branch calls tempfile.mkdtemp().
UsesTmp(ty) == ty = "DISCOGAPIC_CONFIG"

\* A variant of the dispatch in which the GAPIC_CONFIG branch also sets the
\* language, as its neighbours do.
Select_ConfigWithLanguage(ty, language, discovery_doc, output_dir, tmpdir) ==
  LET lang == "language" :> Str(language)
      doc == "discovery_doc" :> Str(discovery_doc)
      r(name, extra, warn) ==
        [ok |-> TRUE, name |-> name, extra |-> extra, warn |-> warn]
  IN CASE ty = "GAPIC_ONLY" -> r("GapicOnlyClientPipeline", lang, FALSE)
       [] ty = "GAPIC" -> r("GapicClientPipeline", lang, FALSE)
       [] ty = "DISCOGAPIC" -> r("DiscoGapicClientPipeline", lang @@ doc, FALSE)
       [] ty = "GRPC" -> r("GrpcClientPipeline", lang, FALSE)
       [] ty = "GAPIC_CONFIG" -> r("GapicConfigPipeline", lang, FALSE)
       [] ty = "DISCOGAPIC_CONFIG" ->
            r("DiscoGapicConfigPipeline",
              doc @@ ("output_dir" :> Str(tmpdir)),
              abspath(output_dir) # abspath(DEFAULT_OUTPUT_DIR))
       [] ty = "PROTOBUF" -> r("ProtoClientPipeline", lang, FALSE)
       [] OTHER -> [ok |-> FALSE, name |-> "", extra |-> EmptyDict, warn |-> FALSE]

\* The dispatch on the artifact type: the pipeline name and what the branch
\* adds to pipeline_args; ok is FALSE where the code raises ValueError.
Select(ty, language, discovery_doc, output_dir, tmpdir) ==
  LET lang == "language" :> Str(language)
      doc == "discovery_doc" :> Str(discovery_doc)
      r(name, extra, warn) ==
        [ok |-> TRUE, name |-> name, extra |-> extra, warn |-> warn]
  IN CASE ty = "GAPIC_ONLY" -> r("GapicOnlyClientPipeline", lang, FALSE)
       [] ty = "GAPIC" -> r("GapicClientPipeline", lang, FALSE)
       [] ty = "DISCOGAPIC" -> r("DiscoGapicClientPipeline", lang @@ doc, FALSE)
       [] ty = "GRPC" -> r("GrpcClientPipeline", lang, FALSE)
       [] ty = "GAPIC_CONFIG" -> r("GapicConfigPipeline", EmptyDict, FALSE)
       [] ty = "DISCOGAPIC_CONFIG" ->
            r("DiscoGapicConfigPipeline",
              doc @@ ("output_dir" :> Str(tmpdir)),
              abspath(output_dir) # abspath(DEFAULT_OUTPUT_DIR))
       [] ty = "PROTOBUF" -> r("ProtoClientPipeline", lang, FALSE)
       [] OTHER -> [ok |-> FALSE, name |-> "", extra |-> EmptyDict, warn |-> FALSE]

\* config_util.load_config_spec(legacy_config_dict, language): the legacy
\* configuration converted from the artifact config, the root directory and
\* the output directory.
LoadConfigSpec(shape, f) ==
  LET base == "output_dir" :> Str(f.output_dir)
      yaml == "gapic_yaml" :> Str(S("/w/in/gapic.yaml"))
  IN CASE shape = "bare" -> base
       [] shape = "plain" -> base @@ yaml @@ ("local_repo_dir" :> Str(S("/repo")))
       [] shape = "token" ->
            base @@ ("gapic_yaml" :> Str(S("")))
                 @@ ("github_token" :> Str(S("s3cr3t")))
       [] shape = "protos" ->
            base @@ yaml @@ ("src_proto_path" :> List(<<S("google/tokens")>>))

\* The keys in the order yaml.dump writes them (sorted).
KeyOrder ==
  <<"artifact_type", "aspect", "discovery_doc", "gapic_yaml", "generator_args",
    "github_token", "language", "local_repo_dir", "output_dir", "root_dir",
    "src_proto_path", "toolkit_path">>

\* The lines yaml.dump writes for one entry.
RenderEntry(k, v) ==
  CASE v.kind = "str" ->
         << S(k) \o S(": ") \o (IF v.s = << >> THEN S("''") ELSE v.s) >>
    [] v.kind = "none" -> << S(k) \o S(": ") \o S("null") >>
    [] v.kind = "list" ->
         << S(k) \o S(":") >> \o [i \in 1..Len(v.items) |-> S("  - ") \o v.items[i]]

RECURSIVE RenderFrom(_, _)
RenderFrom(args, i) ==
  IF i > Len(KeyOrder) THEN << >>
  ELSE (IF KeyOrder[i] \in DOMAIN args
        THEN RenderEntry(KeyOrder[i], args[KeyOrder[i]]) ELSE << >>)
       \o RenderFrom(args, i + 1)

\* yaml.dump(pipeline_args, ...).split('\n'): the dump ends with a newline,
\* so the last element is the empty string.
RenderLines(args) == RenderFrom(args, 1) \o << << >> >>

\* One pass of the logging loop's body: ok is FALSE where line.index(':')
\* raises ValueError.
Redact(line) ==
  IF Contains(line, S("token"))
  THEN IF Index(line, ":") = -1
       THEN [ok |-> FALSE, line |-> line]
       ELSE [ok |-> TRUE, line |-> Slice(line, Index(line, ":") + 2) \o REDACTED]
  ELSE [ok |-> TRUE, line |-> line]

\* The logging loop: the entries logged, and whether the loop completed.
RECURSIVE LogLines(_, _)
LogLines(lines, i) ==
  IF i > Len(lines) THEN [ok |-> TRUE, logged |-> << >>]
  ELSE LET r == Redact(lines[i])
       IN IF ~r.ok THEN [ok |-> FALSE, logged |-> << >>]
          ELSE LET rest == LogLines(lines, i + 1)
               IN [ok |-> rest.ok,
                   logged |-> <<LogEntry("info", "arg", <<" ", " ">> \o r.line)>>
                                \o rest.logged]

\* A variant in which the existence check is missing.
IsFile_Unchecked(file) == TRUE

\* os.path.isfile(artman_config_path)
IsFile(file) == file # "missing"

\* loader.load_artifact_config raises ValueError
LoadFails(file) == file = "invalid"

\* The names tempfile.mkdtemp() can return: any directory not yet there.
TmpNames == {S("/tmp/tmp") \o <<c>> : c \in {"a", "b", "c", "d", "e", "f"}}

\* normalize_flags(flags, user_config) from its first line to its last.
\* outcome is "exit" (sys.exit), "raise" (ValueError) or "return".
NormalizeFlagsResult(f0, file, art, shape, tmpdir) ==
  LET f == ResolveFlags(f0)
      stop(outcome, status, lg, w, tmp) ==
        [outcome |-> outcome, status |-> status, flags |-> f, name |-> "",
         args |-> EmptyDict, log |-> lg, warned |-> w, tmp |-> tmp]
  IN IF ~IsFile(file)
     THEN stop("exit", CONFIG_ERROR_STATUS,
               <<LogEntry("error", "config_missing", f.config)>>, 0, {})
     ELSE IF LoadFails(file)
     THEN stop("exit", CONFIG_ERROR_STATUS,
               <<LogEntry("error", "load_failed", << >>)>>, 0, {})
     ELSE
       LET language == LanguageName(art.language)
           w == IF Deprecated(language) THEN 1 ELSE 0
           lg1 == <<LogEntry("debug", "legacy_config", << >>)>>
           sel == Select(art.type, language, art.discovery_doc, f.output_dir, tmpdir)
       IN IF ~sel.ok THEN stop("raise", UNCAUGHT_STATUS, lg1, w, {})
          ELSE
            LET typed == Update(BaseArgs(f),
                           ("artifact_type" :> Str(TypeName(art.type)))
                             @@ ("aspect" :> Str(S("ALL"))))
                pargs == Update(typed, sel.extra)
                tmp == IF UsesTmp(art.type) THEN {tmpdir} ELSE {}
                lg2 == lg1 \o (IF sel.warn
                               THEN <<LogEntry("warning", "output_dir_ignored", << >>)>>
                               ELSE << >>)
                final == Update(LoadConfigSpec(shape, f), pargs)
                lines == LogLines(RenderLines(final), 1)
                lg3 == lg2 \o <<LogEntry("info", "final_args", << >>)>> \o lines.logged
            IN IF ~lines.ok THEN stop("raise", UNCAUGHT_STATUS, lg3, w, tmp)
               ELSE [outcome |-> "return", status |-> 0, flags |-> f,
                     name |-> sel.name, args |-> final, log |-> lg3,
                     warned |-> w, tmp |-> tmp]

(***************************************************************************)
(* main                                                                    *)
(***************************************************************************)
\* main up to the branch on flags.local: the call of normalize_flags.  A
\* sys.exit or an exception inside it ends the process there.
NormalizeFlags ==
  /\ pc = "start"
  /\ \E tmpdir \in (IF UsesTmp(artifact.type) THEN TmpNames \ tmpDirs ELSE {<< >>}) :
       LET r == NormalizeFlagsResult(flags, configFile, artifact, configSpec, tmpdir)
       IN /\ flags' = r.flags
          /\ log' = log \o r.log
          /\ warned' = warned + r.warned
          /\ tmpDirs' = tmpDirs \cup r.tmp
          /\ IF r.outcome = "return"
             THEN /\ pipeline_name' = r.name
                  /\ pipeline_args' = r.args
                  /\ results' = Append(results, [name |-> r.name, args |-> r.args])
                  /\ pc' = IF r.flags.local THEN "local" ELSE "docker"
                  /\ exitStatus' = exitStatus
             ELSE /\ pc' = "done"
                  /\ exitStatus' = r.status
                  /\ UNCHANGED <<pipeline_name, pipeline_args, results>>
  /\ UNCHANGED <<inputs, pending, pipelineMade, engineRan, containers,
                 childExit, changeOwnerCalls, ownerRaised, hostEnv, chowns>>

\* A variant without the finally clause: after sys.exit(32) in the except
\* clause the process ends at once.
AfterTry_NoFinally(outcome) == IF outcome = "ok" THEN "finally" ELSE "done"

\* Where control goes when the try/except of the local branch has ended,
\* normally or on sys.exit(32): to the finally clause.
AfterTry(outcome) == "finally"

\* The local branch: make_pipeline, engines.load and engine.run() inside
\* try, and the except clause that logs the traceback and calls
\* sys.exit(32).  The SystemExit stays pending while finally runs.
RunPipeline ==
  /\ pc = "local"
  /\ \E outcome \in {"ok", "make_raises", "run_raises"} :
       /\ pipelineMade' = pipelineMade + 1
       /\ engineRan' = IF outcome = "make_raises" THEN engineRan ELSE engineRan + 1
       /\ log' = IF outcome = "ok" THEN log
                 ELSE Append(log, LogEntry("error", "traceback", << >>))
       /\ pending' = IF outcome = "ok" THEN -1 ELSE PIPELINE_FAILED_STATUS
       /\ pc' = AfterTry(outcome)
       /\ exitStatus' = IF AfterTry(outcome) = "done"
                        THEN (IF outcome = "ok" THEN 0 ELSE PIPELINE_FAILED_STATUS)
                        ELSE exitStatus
  /\ UNCHANGED <<inputs, flags, pipeline_name, pipeline_args, results, tmpDirs,
                 warned, containers, childExit, changeOwnerCalls, ownerRaised,
                 hostEnv, chowns>>

(***************************************************************************)
(* _change_owner and _change_directory_owner                               *)
(***************************************************************************)
\* What os.getenv('HOST_USER_ID') / os.getenv('HOST_GROUP_ID') can hold.
EnvValues == {"unset", "0", "1000", "junk"}

\* int(os.getenv(name, 0)): ok is FALSE where int() raises ValueError.
EnvInt(v) ==
  CASE v = "unset" -> [ok |-> TRUE, n |-> 0]
    [] v = "0" -> [ok |-> TRUE, n |-> 0]
    [] v = "1000" -> [ok |-> TRUE, n |-> 1000]
    [] v = "junk" -> [ok |-> FALSE, n |-> 0]

\* A variant of the guard that returns only when both ids are missing.
NoHostIds_Both(uid, gid) == uid = 0 /\ gid = 0

\* `if not user_host_id or not group_host_id: return`
NoHostIds(uid, gid) == uid = 0 \/ gid = 0

\* The os.chown calls of _change_directory_owner(directory, ...), in
\* os.walk's order, for a directory holding one subdirectory d and one
\* file f: the root, d and f, and then d again as the next root.
WalkChowns(directory) ==
  <<directory, directory \o S("/d"), directory \o S("/f"), directory \o S("/d")>>

ConfigPipelines == {"GapicConfigPipeline", "DiscoGapicConfigPipeline"}

\* The os.chown calls _change_owner makes once the ids are set, up to the
\* lookup of pipeline_kwargs['gapic_yaml']; ex says which paths exist.
ChownsBeforeYaml(f, kwargs, ex) ==
  (IF ex.output_dir THEN WalkChowns(f.output_dir) ELSE << >>)
  \o (IF "local_repo_dir" \in DOMAIN kwargs /\ ex.local_repo_dir
      THEN WalkChowns(kwargs["local_repo_dir"].s) ELSE << >>)

\* pipeline_kwargs['gapic_yaml'] raises KeyError
YamlKeyError(kwargs) == "gapic_yaml" \notin DOMAIN kwargs

\* The os.chown call on the gapic yaml file.
ChownsOfYaml(name, kwargs, ex) ==
  IF Truthy(kwargs["gapic_yaml"]) /\ ex.gapic_yaml /\ name \in ConfigPipelines
  THEN <<kwargs["gapic_yaml"].s>> ELSE << >>

\* _change_owner(flags, pipeline_name, pipeline_kwargs): the paths whose
\* owner it changed and whether it ended on an exception.  failAt is the
\* os.chown call that raises OSError, 0 when none does.
ChangeOwnerResult(f, name, kwargs, uidEnv, gidEnv, ex, failAt) ==
  LET uid == EnvInt(uidEnv)
      gid == EnvInt(gidEnv)
      before == ChownsBeforeYaml(f, kwargs, ex)
      all == before \o ChownsOfYaml(name, kwargs, ex)
  IN IF ~uid.ok \/ ~gid.ok THEN [raised |-> TRUE, chowned |-> << >>]
     ELSE IF NoHostIds(uid.n, gid.n) THEN [raised |-> FALSE, chowned |-> << >>]
     ELSE IF failAt \in 1..Len(before)
          THEN [raised |-> TRUE, chowned |-> SubSeq(before, 1, failAt - 1)]
     ELSE IF YamlKeyError(kwargs) THEN [raised |-> TRUE, chowned |-> before]
     ELSE IF failAt \in 1..Len(all)
          THEN [raised |-> TRUE, chowned |-> SubSeq(all, 1, failAt - 1)]
     ELSE [raised |-> FALSE, chowned |-> all]

\* The ids are read and both are set: _change_owner goes on to the paths.
IdsSet(uidEnv, gidEnv) ==
  /\ EnvInt(uidEnv).ok /\ EnvInt(gidEnv).ok
  /\ ~NoHostIds(EnvInt(uidEnv).n, EnvInt(gidEnv).n)

\* The os.chown calls _change_owner attempts when none of them fails.
ChownPlan(f, name, kwargs, ex) ==
  ChownsBeforeYaml(f, kwargs, ex)
  \o (IF YamlKeyError(kwargs) THEN << >> ELSE ChownsOfYaml(name, kwargs, ex))

\* Which paths exist matters only once the ids are set.
ExistChoices(uidEnv, gidEnv) ==
  IF IdsSet(uidEnv, gidEnv)
  THEN [output_dir : BOOLEAN, local_repo_dir : BOOLEAN, gapic_yaml : BOOLEAN]
  ELSE {[output_dir |-> TRUE, local_repo_dir |-> TRUE, gapic_yaml |-> TRUE]}

\* The os.chown call that may raise OSError: any of those attempted.
FailChoices(f, name, kwargs, uidEnv, gidEnv, ex) ==
  IF IdsSet(uidEnv, gidEnv) THEN 0..Len(ChownPlan(f, name, kwargs, ex)) ELSE {0}

\* The finally clause of the local branch, and the end of the process: an
\* exception out of _change_owner replaces a pending SystemExit.
ChangeOwner ==
  /\ pc = "finally"
  /\ \E uidEnv \in EnvValues, gidEnv \in EnvValues :
     \E ex \in ExistChoices(uidEnv, gidEnv) :
     \E failAt \in FailChoices(flags, pipeline_name, pipeline_args, uidEnv, gidEnv, ex) :
       LET r == ChangeOwnerResult(flags, pipeline_name, pipeline_args,
                                  uidEnv, gidEnv, ex, failAt)
       IN /\ chowns' = chowns \o r.chowned
          /\ ownerRaised' = r.raised
          /\ hostEnv' = <<uidEnv, gidEnv>>
          /\ exitStatus' = IF r.raised THEN UNCAUGHT_STATUS
                           ELSE IF pending # -1 THEN pending ELSE 0
  /\ changeOwnerCalls' = changeOwnerCalls + 1
  /\ pc' = "done"
  /\ UNCHANGED <<inputs, flags, pipeline_name, pipeline_args, results, tmpDirs,
                 log, warned, pending, pipelineMade, engineRan, containers,
                 childExit>>

(***************************************************************************)
(* _run_artman_in_docker                                                   *)
(***************************************************************************)
\* os.path.dirname(p)
dirname(p) ==
  LET cut == {i \in 1..Len(p) : p[i] = "/"}
  IN IF cut = {} THEN << >>
     ELSE LET last == CHOOSE i \in cut : \A j \in cut : j <= i
          IN IF last = 1 THEN S("/") ELSE SubSeq(p, 1, last - 1)

\* sys.argv[1:] as words; a flag's value is named after the flag.
Argv(raw) ==
  (IF raw.local THEN <<"--local">> ELSE << >>)
  \o (IF raw.root_dir # << >> THEN <<"--root-dir", "ROOT_DIR">> ELSE << >>)
  \o <<"--config", "CONFIG", "--output-dir", "OUTPUT_DIR", "generate", "ARTIFACT">>

HasWord(words, w) == \E i \in 1..Len(words) : words[i] = w

\* inner_artman_cmd_str: the quoted arguments, with --root-dir put in front
\* when the caller gave none.
InnerCmd(raw) ==
  IF HasWord(Argv(raw), "--root-dir") THEN Argv(raw)
  ELSE <<"--root-dir", "ROOT_DIR">> \o Argv(raw)

\* inner_artman_debug_cmd_str: --local is put in front when it is not there.
InnerDebugCmd(raw) ==
  IF HasWord(InnerCmd(raw), "--local") THEN InnerCmd(raw)
  ELSE <<"--local">> \o InnerCmd(raw)

\* base_cmd: the docker run command with its environment and mounts.
BaseCmd(f) ==
  [name |-> "artman-docker",
   env |-> {"HOST_USER_ID", "HOST_GROUP_ID", "RUNNING_IN_ARTMAN_DOCKER"},
   mounts |-> <<f.root_dir, f.output_dir, dirname(f.config)>>,
   workdir |-> f.root_dir]

\* debug_cmd and cmd: base_cmd and what bash -c runs.
DebugCmd(f, raw) ==
  [base |-> BaseCmd(f), shell |-> <<"artman">> \o InnerDebugCmd(raw) \o <<";", "bash">>]
Cmd(f, raw) ==
  [base |-> BaseCmd(f), shell |-> <<"artman", "--local">> \o InnerCmd(raw)]

\* A variant in which the debug command is logged at the end of the try
\* body instead of in a finally clause.
DockerLog_NoFinally(f, raw, code) ==
  IF code = 0
  THEN <<LogEntry("info", "child_output", << >>),
         LogEntry("debug", "debug_cmd", DebugCmd(f, raw))>>
  ELSE <<LogEntry("error", "child_output", << >>),
         LogEntry("error", "rerun_verbose_hint", << >>)>>

\* What _run_artman_in_docker logs for a child that exits with `code`:
\* the try body or the except clause, and then the finally clause.
DockerLog(f, raw, code) ==
  (IF code = 0
   THEN <<LogEntry("info", "child_output", << >>)>>
   ELSE <<LogEntry("error", "child_output", << >>),
          LogEntry("error", "rerun_verbose_hint", << >>)>>)
  \o <<LogEntry("debug", "debug_cmd", DebugCmd(f, raw))>>

\* A variant that ends a failed containerized run with the config status.
DockerStatus_Config(code) == IF code = 0 THEN 0 ELSE CONFIG_ERROR_STATUS

\* The exit status _run_artman_in_docker leaves the process with.
DockerStatus(code) == IF code = 0 THEN 0 ELSE DOCKER_FAILED_STATUS

\* The containerized branch of main: check_docker_requirements passes, the
\* child process runs to its end and exits with `code`.
RunArtmanInDocker ==
  /\ pc = "docker"
  /\ \E code \in {0, 1, 2} :
       /\ log' = log \o <<LogEntry("info", "running_in_docker", << >>)>>
                     \o DockerLog(flags, rawFlags, code)
       /\ exitStatus' = DockerStatus(code)
       /\ childExit' = code
  /\ containers' = containers + 1
  /\ pc' = "done"
  /\ UNCHANGED <<inputs, flags, pipeline_name, pipeline_args, results, tmpDirs,
                 warned, pending, pipelineMade, engineRan, changeOwnerCalls,
                 ownerRaised, hostEnv, chowns>>

(***************************************************************************)
(* Specifications                                                          *)
(***************************************************************************)
\* One run of the command line.
Next ==
  \/ NormalizeFlags
  \/ RunPipeline
  \/ ChangeOwner
  \/ RunArtmanInDocker

Spec == Init /\ [][Next]_vars

\* normalize_flags is called again with the same user configuration and
\* artifact: on the flags namespace the previous call rewrote, or on flags
\* parsed afresh from the same command line.
Rerun ==
  /\ pc \in {"local", "docker"}
  /\ Len(results) < MaxRuns
  /\ pc' = "start"
  /\ \E fresh \in BOOLEAN : flags' = IF fresh THEN rawFlags ELSE flags
  /\ UNCHANGED <<inputs, pipeline_name, pipeline_args, results, tmpDirs, log,
                 warned, pending, exitStatus, pipelineMade, engineRan,
                 containers, childExit, changeOwnerCalls, ownerRaised, hostEnv, chowns>>

MergerNext ==
  \/ NormalizeFlags
  \/ Rerun

\* The Config Merger applied repeatedly to identical inputs.
MergerSpec == Init /\ [][MergerNext]_vars

(***************************************************************************)
(* Properties                                                              *)
(***************************************************************************)
HasLog(level, msg) ==
  \E i \in 1..Len(log) : log[i].level = level /\ log[i].msg = msg

\* normalize_flags has returned to main.
Resolved == results # << >>

\* C1: in Local mode, once normalize_flags has returned, _change_owner is
\* invoked exactly once on every path out of the execution step (normal
\* return, make_pipeline raising, engine.run() raising); it is never invoked
\* before the execution step, never twice, and the process never ends from
\* the local branch without it.
C1_ReconcilerRunsOnEveryPath ==
  /\ changeOwnerCalls <= 1
  /\ (pc \in {"start", "local"} => changeOwnerCalls = 0)
  /\ (pc = "done" /\ flags.local /\ Resolved) =>
       (pipelineMade = 1 /\ changeOwnerCalls = 1)

\* The process has ended after engine.run() raised, and _change_owner ran.
C1_Witness ==
  /\ pc = "done" /\ flags.local /\ Resolved
  /\ engineRan = 1 /\ pending = PIPELINE_FAILED_STATUS
  /\ changeOwnerCalls = 1

\* The pipeline name the dispatch table gives an artifact type.
TableName(ty) ==
  CASE ty = "GAPIC_ONLY" -> "GapicOnlyClientPipeline"
    [] ty = "GAPIC" -> "GapicClientPipeline"
    [] ty = "DISCOGAPIC" -> "DiscoGapicClientPipeline"
    [] ty = "GRPC" -> "GrpcClientPipeline"
    [] ty = "GAPIC_CONFIG" -> "GapicConfigPipeline"
    [] ty = "DISCOGAPIC_CONFIG" -> "DiscoGapicConfigPipeline"
    [] ty = "PROTOBUF" -> "ProtoClientPipeline"

\* C2: for each of the seven artifact types normalize_flags returns the
\* pipeline name of the dispatch table, sets language exactly for GAPIC_ONLY,
\* GAPIC, DISCOGAPIC, GRPC and PROTOBUF, sets discovery_doc exactly for
\* DISCOGAPIC and DISCOGAPIC_CONFIG, and overrides output_dir with a scratch
\* directory exactly for DISCOGAPIC_CONFIG; for any other type it raises and
\* returns no pipeline name.
C2_DispatchTable ==
  /\ Resolved =>
       LET ty == artifact.type
           r == results[Len(results)]
       IN /\ ty # "UNRECOGNIZED"
          /\ r.name = TableName(ty)
          /\ pipeline_name = r.name
          /\ ("language" \in DOMAIN r.args)
               <=> ty \in {"GAPIC_ONLY", "GAPIC", "DISCOGAPIC", "GRPC", "PROTOBUF"}
          /\ ("language" \in DOMAIN r.args
                => r.args["language"] = Str(LanguageName(artifact.language)))
          /\ ("discovery_doc" \in DOMAIN r.args)
               <=> ty \in {"DISCOGAPIC", "DISCOGAPIC_CONFIG"}
          /\ ("discovery_doc" \in DOMAIN r.args
                => r.args["discovery_doc"] = Str(artifact.discovery_doc))
          /\ (r.args["output_dir"].s \in tmpDirs) <=> ty = "DISCOGAPIC_CONFIG"
          /\ (ty # "DISCOGAPIC_CONFIG"
                => r.args["output_dir"] = Str(flags.output_dir))
          /\ r.args["artifact_type"] = Str(S(ty))
  /\ (artifact.type = "UNRECOGNIZED" /\ configFile = "ok" /\ pc # "start") =>
       (pc = "done" /\ ~Resolved /\ pipeline_name = ""
          /\ exitStatus = UNCAUGHT_STATUS)

\* normalize_flags has returned the pipeline of a GAPIC_CONFIG artifact.
C2_Witness ==
  /\ Resolved /\ artifact.type = "GAPIC_CONFIG"
  /\ pipeline_name = "GapicConfigPipeline"

\* C5: when the resolved config file does not exist or the named artifact
\* cannot be loaded, the run ends with the config-error status, and no
\* pipeline is made, no engine is run, no container is started and
\* _change_owner is not invoked, with --local and without.
C5_ConfigErrorStopsTheRun ==
  (configFile # "ok" /\ pc # "start") =>
    /\ pc = "done"
    /\ exitStatus = CONFIG_ERROR_STATUS
    /\ ~Resolved
    /\ pipelineMade = 0 /\ engineRan = 0 /\ containers = 0
    /\ changeOwnerCalls = 0 /\ chowns = << >>

\* A containerized run has ended on a missing config file.
C5_Witness ==
  /\ configFile = "missing" /\ ~flags.local /\ pc = "done"
  /\ HasLog("error", "config_missing")

\* C8: _change_owner changes no owner (of the output directory, the local
\* repository directory or the gapic yaml file) whenever HOST_USER_ID or
\* HOST_GROUP_ID is unset or zero, for every pipeline name and argument map.
C8_NoIdsNoChown ==
  (changeOwnerCalls = 1
     /\ (hostEnv[1] \in {"unset", "0"} \/ hostEnv[2] \in {"unset", "0"}))
    => chowns = << >>

\* _change_owner ran with a user id and no group id, for a config pipeline
\* whose arguments name a gapic yaml and a local repository directory.
C8_Witness ==
  /\ changeOwnerCalls = 1 /\ hostEnv = <<"1000", "unset">>
  /\ "gapic_yaml" \in DOMAIN pipeline_args
  /\ "local_repo_dir" \in DOMAIN pipeline_args
  /\ pipeline_name \in ConfigPipelines
  /\ chowns = << >>

\* The three failures, as the run shows them.
PipelineFailed == HasLog("error", "traceback")
ContainerFailed == childExit \notin {-1, 0}
ConfigFailed == HasLog("error", "config_missing") \/ HasLog("error", "load_failed")

\* C3, as claimed: the status of a failed local pipeline execution, the
\* status of a failed containerized execution and the config-error status
\* are pairwise distinct, and none is 0.
C3_PairwiseDistinct ==
  /\ PipelineFailed =>
       pending \notin {0, DOCKER_FAILED_STATUS, CONFIG_ERROR_STATUS}
  /\ (ContainerFailed /\ pc = "done") =>
       exitStatus \notin {0, PIPELINE_FAILED_STATUS, CONFIG_ERROR_STATUS}
  /\ (ConfigFailed /\ pc = "done") =>
       exitStatus \notin {0, PIPELINE_FAILED_STATUS, DOCKER_FAILED_STATUS}

\* C3, amended: a failed local pipeline execution and a failed containerized
\* execution exit with one and the same status; the config-error status is
\* distinct from it; none of them is 0.
C3_ConfigDistinctExecutionShared ==
  /\ PipelineFailed =>
       (pending = DOCKER_FAILED_STATUS
          /\ pending \notin {0, CONFIG_ERROR_STATUS})
  /\ (ContainerFailed /\ pc = "done") =>
       (exitStatus = PIPELINE_FAILED_STATUS
          /\ exitStatus \notin {0, CONFIG_ERROR_STATUS})
  /\ (ConfigFailed /\ pc = "done") =>
       (exitStatus = CONFIG_ERROR_STATUS
          /\ exitStatus \notin {0, PIPELINE_FAILED_STATUS, DOCKER_FAILED_STATUS})

\* A containerized run has ended on a child that exited non-zero.
C3_Witness ==
  pc = "done" /\ ContainerFailed /\ exitStatus = PIPELINE_FAILED_STATUS

\* C4, as claimed: _change_owner never fails the run: it returns without
\* raising whatever the pipeline arguments hold and whichever os.chown
\* fails, and the exit status is the one the execution step decided (0 on
\* success, the pipeline-failure status on failure).
C4_ReconcilerNeverFailsTheRun ==
  (pc = "done" /\ changeOwnerCalls = 1) =>
    /\ ~ownerRaised
    /\ exitStatus = (IF PipelineFailed THEN PIPELINE_FAILED_STATUS ELSE 0)

\* C6: in Containerized mode the debug command is logged, at debug level
\* and once, whether the child exits zero or non-zero; when the child exits
\* non-zero the run ends with the container-failure status, the child's
\* output and the hint having been logged, in that order, before.
C6_DebugCommandAlwaysLogged ==
  (pc = "done" /\ containers = 1) =>
    LET debugs == {i \in 1..Len(log) : log[i].msg = "debug_cmd"}
    IN /\ Cardinality(debugs) = 1
       /\ \A i \in debugs :
            log[i].level = "debug" /\ log[i].text = DebugCmd(flags, rawFlags)
       /\ (childExit = 0 => exitStatus = 0)
       /\ (childExit # 0 =>
             /\ exitStatus = DOCKER_FAILED_STATUS
             /\ \E i, j \in 1..Len(log) :
                  /\ i < j
                  /\ log[i] = LogEntry("error", "child_output", << >>)
                  /\ log[j] = LogEntry("error", "rerun_verbose_hint", << >>))

\* A containerized run whose child exited non-zero has ended.
C6_Witness ==
  /\ pc = "done" /\ containers = 1 /\ childExit = 2
  /\ HasLog("debug", "debug_cmd")

\* The keys of the pipeline arguments that contain "token".
TokenKeys(args) == {k \in DOMAIN args : Contains(S(k), S("token"))}

\* C7, as claimed: once normalize_flags has the final arguments, rendering
\* them never fails; every line whose key contains "token" is logged with
\* the redaction marker for a value and its value is in no logged line; and
\* the arguments returned still hold the unredacted value.
C7_RedactionNeverFails ==
  (configFile = "ok" /\ artifact.type # "UNRECOGNIZED" /\ pc # "start") =>
    /\ Resolved
    /\ \A k \in TokenKeys(pipeline_args) :
         /\ \E i \in 1..Len(log) :
              /\ log[i].msg = "arg"
              /\ log[i].text = <<" ", " ">> \o S(k) \o S(": ") \o REDACTED
         /\ \A i \in 1..Len(log) :
              log[i].msg = "arg" => ~Contains(log[i].text, pipeline_args[k].s)
         /\ pipeline_args[k] = LoadConfigSpec(configSpec, flags)[k]

\* C9, as claimed: normalize_flags applied twice to identical flags, user
\* configuration and artifact returns identical results, for every artifact
\* type, DISCOGAPIC_CONFIG included.
C9_Idempotent ==
  \A i, j \in 1..Len(results) : results[i] = results[j]

\* C9, amended: normalize_flags applied twice to identical inputs returns
\* the same pipeline name and, for every artifact type but
\* DISCOGAPIC_CONFIG, identical arguments; for DISCOGAPIC_CONFIG the
\* arguments agree on every key but output_dir, which is a different
\* scratch directory in each result.
C9_IdempotentButScratchDir ==
  \A i, j \in 1..Len(results) :
    i < j =>
      LET a == results[i].args
          b == results[j].args
      IN /\ results[i].name = results[j].name
         /\ DOMAIN a = DOMAIN b
         /\ \A k \in DOMAIN a \ {"output_dir"} : a[k] = b[k]
         /\ IF artifact.type = "DISCOGAPIC_CONFIG"
            THEN /\ a["output_dir"] # b["output_dir"]
                 /\ a["output_dir"].s \in tmpDirs
                 /\ b["output_dir"].s \in tmpDirs
            ELSE a["output_dir"] = b["output_dir"]

\* normalize_flags has returned twice for a DISCOGAPIC_CONFIG artifact, the
\* second time on the flags the first call rewrote.
C9_Witness ==
  /\ Len(results) = 2 /\ artifact.type = "DISCOGAPIC_CONFIG"
  /\ rawFlags.root_dir # << >> /\ ~isabs(rawFlags.config)
  /\ results[1].args["root_dir"] = results[2].args["root_dir"]
  /\ results[1].args["output_dir"] # results[2].args["output_dir"]

\* C10, as claimed: normalize_flags emits the deprecation warning when the
\* language is not Ruby and emits none when it is Ruby; either way it goes
\* on to the same pipeline selection.
C10_WarningUnlessRuby ==
  (configFile = "ok" /\ pc # "start") =>
    /\ warned = (IF artifact.language = "RUBY" THEN 0 ELSE 1)
    /\ (Resolved => pipeline_name = TableName(artifact.type))

====
